---- MODULE Spec2Model ----
(***************************************************************************)
(* auto-faucet: the BrowsingSession of src/obj/BrowsingSession.ts.         *)
(*                                                                         *)
(* One session object is modelled from the call of its constructor to the  *)
(* end of run().  Every await of the code is a suspension point: the       *)
(* action named XDone is the continuation that runs when the browser       *)
(* operation X completes (ok) or fails (~ok), and it models everything the *)
(* code does up to the next await.  The promise returned by login() is     *)
(* settled by the executor of login() and observed by the .then/.catch     *)
(* handlers of run(); the two run interleaved, as they do on the event     *)
(* loop.                                                                   *)
(***************************************************************************)
EXTENDS Naturals, Sequences, FiniteSets, TLC

VARIABLES
  loginOptions,    \* this.loginOptions: [username, password]
  captchaOptions,  \* this.captchaOptions: <<>> for null, <<[id, token, visualFeedback]>> otherwise
  debug,           \* this.debug
  session,         \* this.session: "null" or "browser"
  page,            \* this.page: "null" or "page"
  plugins,         \* the plugins registered with extra.use, in order
  logs,            \* the lines written by log(), in order
  ops,             \* the browser operations invoked, in order
  runPc,           \* position of the constructor / run()
  loginPc,         \* position of the executor of login()
  promise,         \* the promise returned by login(): [state, value]
  settles,         \* the resolve / reject calls made by login(), in order
  failures,        \* the steps of login() that failed
  captchaResult,   \* what solveCaptchas returned: "none", "pending", "defined", "undefined"
  urlRead,         \* what page.url() returned at the inspection step, "none" before
  escaped          \* TRUE when run() ended with a rejection nobody handles

vars == <<loginOptions, captchaOptions, debug, session, page, plugins, logs, ops,
          runPc, loginPc, promise, settles, failures, captchaResult, urlRead, escaped>>

-----------------------------------------------------------------------------
(* Values *)

Null == "<null>"
Undefined == "<undefined>"

DashboardUrl == "https://autofaucet.org/dashboard"
LoginPageUrl == "https://autofaucet.org/login"

LoginResults ==
  {"LOGIN_SUCCESS", "USERNAME_FIELD_RELATED", "PASSWORD_FIELD_RELATED",
   "CAPTCHA_FIELD_RELATED", "INVALID_CREDENTIALS", "PAGE_OTHER_ERROR"}

\* The arguments a caller can pass (TypeScript does not check them at run time).
StringInputs == {Null, Undefined, "", "alice"}
ProviderInputs == {Null, Undefined, "", "capmonster", "2captcha", "anticaptcha"}
TokenInputs == {Null, Undefined, "", "tok"}
FlagInputs == {Undefined, "true", "false"}
UrlInputs == {DashboardUrl, LoginPageUrl}

LoginInputs == [username : StringInputs, password : StringInputs]
CaptchaInputs ==
  {<<>>} \cup {<<c>> : c \in [id : ProviderInputs, token : TokenInputs,
                               visualFeedback : FlagInputs]}

-----------------------------------------------------------------------------
(* Pure helpers *)

\* Validate.nonNullEmpty without the test for the empty string
nonNullEmpty_NoEmptyString(values) ==
  \A i \in 1..Len(values) : ~(values[i] = Null \/ values[i] = Undefined)

\* Validate.nonNullEmpty(...values)
nonNullEmpty(values) ==
  \A i \in 1..Len(values) : ~(values[i] = Null \/ values[i] = Undefined \/ values[i] = "")

\* x || false
OrFalse(x) == x = "true"

\* log(message, from, level): the level tag of the line written
LevelTag(level) ==
  CASE level = "warn" -> "WARN"
    [] level = "error" -> "ERROR"
    [] OTHER -> "LOG"

Log(message, from, level) ==
  [level |-> LevelTag(level), from |-> from, message |-> message]

\* A promise that lets every resolve / reject call overwrite its outcome
Settle_LastWins(p, kind, v) ==
  IF p.state = "none" THEN p ELSE [state |-> kind, value |-> v]

\* resolve(v) / reject(v) of a promise: only the first call settles it.
Settle(p, kind, v) ==
  IF p.state = "pending" THEN [state |-> kind, value |-> v] ELSE p

Call(kind, v) == [kind |-> kind, value |-> v]

-----------------------------------------------------------------------------
Init ==
  /\ loginOptions \in LoginInputs
  /\ captchaOptions \in CaptchaInputs
  /\ debug \in {OrFalse(d) : d \in FlagInputs}
  /\ session = "null"
  /\ page = "null"
  /\ plugins = <<>>
  /\ logs = <<>>
  /\ ops = <<>>
  /\ runPc = "new"
  /\ loginPc = "idle"
  /\ promise = [state |-> "none", value |-> Undefined]
  /\ settles = <<>>
  /\ failures = {}
  /\ captchaResult = "none"
  /\ urlRead = "none"
  /\ escaped = FALSE

-----------------------------------------------------------------------------
(* The session orchestrator: constructor and run() *)

Op(name, arg) == [op |-> name, arg |-> arg]

Invoked(name, arg) == \E i \in 1..Len(ops) : ops[i] = Op(name, arg)

InvokedAny(name) == \E i \in 1..Len(ops) : ops[i].op = name

\* The constructor with the plugin registered before the captcha options are
\* validated
Construct_UseBeforeValidate ==
  /\ runPc = "new"
  /\ plugins' = IF captchaOptions # <<>>
                THEN Append(plugins,
                            [provider |-> [id |-> captchaOptions[1].id,
                                           token |-> captchaOptions[1].token],
                             visualFeedback |-> OrFalse(captchaOptions[1].visualFeedback)])
                ELSE plugins
  /\ IF captchaOptions # <<>>
        /\ ~nonNullEmpty(<<captchaOptions[1].id, captchaOptions[1].token>>)
     THEN /\ logs' = Append(logs, Log("Invalid captcha options provided", "CaptchaSolver", "error"))
          /\ runPc' = "aborted"
          /\ ops' = ops
     ELSE IF ~nonNullEmpty(<<loginOptions.username, loginOptions.password>>)
     THEN /\ logs' = Append(logs, Log("Invalid login options provided", "Login", "error"))
          /\ runPc' = "aborted"
          /\ ops' = ops
     ELSE /\ logs' = logs \o
               << Log("Login options set, continuing to run browsing session", "Login", "info"),
                  Log("Starting browsing session", "BrowsingSession", "info") >>
          /\ ops' = Append(ops, Op("launch", IF debug THEN "headful" ELSE "headless"))
          /\ runPc' = "launch"
  /\ UNCHANGED <<loginOptions, captchaOptions, debug, session, page, loginPc, promise,
                 settles, failures, captchaResult, urlRead, escaped>>

\* new BrowsingSession(login, captcha, debug), from the validation of the
\* captcha options to the first await of run() (the call of extra.launch).
Construct ==
  /\ runPc = "new"
  /\ IF captchaOptions # <<>>
        /\ ~nonNullEmpty(<<captchaOptions[1].id, captchaOptions[1].token>>)
     THEN /\ logs' = Append(logs, Log("Invalid captcha options provided", "CaptchaSolver", "error"))
          /\ runPc' = "aborted"
          /\ UNCHANGED <<plugins, ops>>
     ELSE LET plugins1 ==
                IF captchaOptions # <<>>
                THEN Append(plugins,
                            [provider |-> [id |-> captchaOptions[1].id,
                                           token |-> captchaOptions[1].token],
                             visualFeedback |-> OrFalse(captchaOptions[1].visualFeedback)])
                ELSE plugins
              logs1 ==
                IF captchaOptions # <<>>
                THEN Append(logs, Log("Captcha options set, continuing to validate login options",
                                      "CaptchaSolver", "info"))
                ELSE logs
          IN /\ plugins' = plugins1
             /\ IF ~nonNullEmpty(<<loginOptions.username, loginOptions.password>>)
                THEN /\ logs' = Append(logs1, Log("Invalid login options provided", "Login", "error"))
                     /\ runPc' = "aborted"
                     /\ ops' = ops
                ELSE /\ logs' = logs1 \o
                          << Log("Login options set, continuing to run browsing session", "Login", "info"),
                             Log("Starting browsing session", "BrowsingSession", "info") >>
                     /\ ops' = Append(ops, Op("launch", IF debug THEN "headful" ELSE "headless"))
                     /\ runPc' = "launch"
  /\ UNCHANGED <<loginOptions, captchaOptions, debug, session, page, loginPc, promise,
                 settles, failures, captchaResult, urlRead, escaped>>

\* run(): extra.launch(...) completed or failed
LaunchDone(ok) ==
  /\ runPc = "launch"
  /\ IF ok
     THEN /\ session' = "browser"
          /\ logs' = Append(logs, Log("Session started, continuing to open page", "BrowsingSession", "info"))
          /\ ops' = Append(ops, Op("newPage", ""))
          /\ runPc' = "newPage"
          /\ escaped' = escaped
     ELSE /\ runPc' = "rejected"
          /\ escaped' = TRUE
          /\ UNCHANGED <<session, logs, ops>>
  /\ UNCHANGED <<loginOptions, captchaOptions, debug, page, plugins, loginPc, promise,
                 settles, failures, captchaResult, urlRead>>

\* run(): session.newPage() completed or failed
NewPageDone(ok) ==
  /\ runPc = "newPage"
  /\ IF ok
     THEN /\ page' = "page"
          /\ ops' = Append(ops, Op("goto", DashboardUrl))
          /\ runPc' = "goto"
          /\ escaped' = escaped
     ELSE /\ runPc' = "rejected"
          /\ escaped' = TRUE
          /\ UNCHANGED <<page, ops>>
  /\ UNCHANGED <<loginOptions, captchaOptions, debug, session, plugins, logs, loginPc,
                 promise, settles, failures, captchaResult, urlRead>>

\* goto with login() chained after the .catch instead of before it: login()
\* is called whether goto succeeded or failed
GotoDone_LoginAfterCatch(ok) ==
  /\ runPc = "goto"
  /\ logs' = IF ok THEN logs ELSE Append(logs, Log("goto failed", "Page", "error"))
  /\ promise' = [state |-> "pending", value |-> Undefined]
  /\ ops' = Append(ops, Op("waitForNavigation", "networkidle0"))
  /\ loginPc' = "waitForNavigation"
  /\ runPc' = "login"
  /\ UNCHANGED <<loginOptions, captchaOptions, debug, session, page, plugins,
                 settles, failures, captchaResult, urlRead, escaped>>

\* run(): page.goto(...) completed (login() is called: its executor runs to
\* the call of waitForNavigation) or failed (the Page error is logged).
GotoDone(ok) ==
  /\ runPc = "goto"
  /\ IF ok
     THEN /\ promise' = [state |-> "pending", value |-> Undefined]
          /\ ops' = Append(ops, Op("waitForNavigation", "networkidle0"))
          /\ loginPc' = "waitForNavigation"
          /\ runPc' = "login"
          /\ logs' = logs
     ELSE /\ logs' = Append(logs, Log("goto failed", "Page", "error"))
          /\ runPc' = "done"
          /\ UNCHANGED <<promise, ops, loginPc>>
  /\ UNCHANGED <<loginOptions, captchaOptions, debug, session, page, plugins,
                 settles, failures, captchaResult, urlRead, escaped>>

\* run(): the .then / .catch handlers on the promise of login()
ObserveLogin ==
  /\ runPc = "login"
  /\ promise.state \in {"fulfilled", "rejected"}
  /\ logs' = Append(logs,
                    IF promise.state = "fulfilled"
                    THEN Log("Result for login attempt: " \o promise.value, "Login", "info")
                    ELSE Log(promise.value, "Login", "error"))
  /\ runPc' = "done"
  /\ UNCHANGED <<loginOptions, captchaOptions, debug, session, page, plugins, ops, loginPc,
                 promise, settles, failures, captchaResult, urlRead, escaped>>

-----------------------------------------------------------------------------
(* The login sequencer: login() and solveCaptchas() *)

UsernameSelector == "input[name=username]"
PasswordSelector == "input[name=password]"
SubmitSelector == "button[type=submit]"

\* The promise of login() and the calls made on it so far
Now == [promise |-> promise, settles |-> settles]

resolve(st, v) ==
  [promise |-> Settle(st.promise, "fulfilled", v),
   settles |-> Append(st.settles, Call("resolve", v))]

reject(st, v) ==
  [promise |-> Settle(st.promise, "rejected", v),
   settles |-> Append(st.settles, Call("reject", v))]

Commit(st) == promise' = st.promise /\ settles' = st.settles

\* solveCaptchas(page, captchaOptions), from its call to its first await or
\* to its return: `result` stays undefined unless capmonster is asked.
SolveCaptchas ==
  IF captchaOptions # <<>> /\ captchaOptions[1].id = "capmonster"
  THEN /\ logs' = Append(logs, Log("Solving captcha with CapMonster", "CaptchaSolver", "info"))
       /\ ops' = Append(ops, Op("solveRecaptchas", ""))
       /\ captchaResult' = "pending"
       /\ loginPc' = "solveRecaptchas"
  ELSE /\ logs' = IF captchaOptions # <<>> /\ captchaOptions[1].id # "2captcha"
                  THEN Append(logs, Log("Invalid captcha provider specified", "CaptchaSolver", "error"))
                  ELSE logs
       /\ ops' = ops
       /\ captchaResult' = "undefined"
       /\ loginPc' = "captchaThen"

\* The initial navigation wait without its .catch: a failure settles nothing
WaitForNavigationDone_NoCatch(ok) ==
  /\ loginPc = "waitForNavigation"
  /\ IF ok
     THEN /\ ops' = Append(ops, Op("click", UsernameSelector))
          /\ loginPc' = "clickUsername"
          /\ failures' = failures
     ELSE /\ failures' = failures \cup {"navigation"}
          /\ loginPc' = "returned"
          /\ ops' = ops
  /\ UNCHANGED <<loginOptions, captchaOptions, debug, session, page, plugins, logs, runPc,
                 promise, settles, captchaResult, urlRead, escaped>>

\* login(): waitForNavigation({waitUntil: "networkidle0"}) completed or failed
WaitForNavigationDone(ok) ==
  /\ loginPc = "waitForNavigation"
  /\ IF ok
     THEN /\ ops' = Append(ops, Op("click", UsernameSelector))
          /\ loginPc' = "clickUsername"
          /\ UNCHANGED <<promise, settles, failures>>
     ELSE /\ Commit(reject(Now, "PAGE_OTHER_ERROR"))
          /\ failures' = failures \cup {"navigation"}
          /\ loginPc' = "returned"
          /\ ops' = ops
  /\ UNCHANGED <<loginOptions, captchaOptions, debug, session, page, plugins, logs, runPc,
                 captchaResult, urlRead, escaped>>

\* The username click with the wrong outcome in its .catch
ClickUsernameDone_WrongOutcome(ok) ==
  /\ loginPc = "clickUsername"
  /\ IF ok
     THEN /\ ops' = Append(ops, Op("type", UsernameSelector))
          /\ loginPc' = "typeUsername"
          /\ UNCHANGED <<promise, settles, failures>>
     ELSE /\ Commit(reject(Now, "PASSWORD_FIELD_RELATED"))
          /\ failures' = failures \cup {"username"}
          /\ ops' = Append(ops, Op("click", PasswordSelector))
          /\ loginPc' = "clickPassword"
  /\ UNCHANGED <<loginOptions, captchaOptions, debug, session, page, plugins, logs, runPc,
                 captchaResult, urlRead, escaped>>

\* login(): click on the username input completed or failed
ClickUsernameDone(ok) ==
  /\ loginPc = "clickUsername"
  /\ IF ok
     THEN /\ ops' = Append(ops, Op("type", UsernameSelector))
          /\ loginPc' = "typeUsername"
          /\ UNCHANGED <<promise, settles, failures>>
     ELSE /\ Commit(reject(Now, "USERNAME_FIELD_RELATED"))
          /\ failures' = failures \cup {"username"}
          /\ ops' = Append(ops, Op("click", PasswordSelector))
          /\ loginPc' = "clickPassword"
  /\ UNCHANGED <<loginOptions, captchaOptions, debug, session, page, plugins, logs, runPc,
                 captchaResult, urlRead, escaped>>

\* login(): typing the username completed or failed
TypeUsernameDone(ok) ==
  /\ loginPc = "typeUsername"
  /\ IF ok
     THEN UNCHANGED <<promise, settles, failures>>
     ELSE /\ Commit(reject(Now, "USERNAME_FIELD_RELATED"))
          /\ failures' = failures \cup {"username"}
  /\ ops' = Append(ops, Op("click", PasswordSelector))
  /\ loginPc' = "clickPassword"
  /\ UNCHANGED <<loginOptions, captchaOptions, debug, session, page, plugins, logs, runPc,
                 captchaResult, urlRead, escaped>>

\* The password click without its .catch effect: a failure settles nothing
ClickPasswordDone_NoReject(ok) ==
  /\ loginPc = "clickPassword"
  /\ IF ok
     THEN /\ ops' = Append(ops, Op("type", PasswordSelector))
          /\ loginPc' = "typePassword"
          /\ UNCHANGED <<failures, logs, captchaResult>>
     ELSE /\ failures' = failures \cup {"password"}
          /\ SolveCaptchas
  /\ UNCHANGED <<loginOptions, captchaOptions, debug, session, page, plugins, runPc,
                 promise, settles, urlRead, escaped>>

\* login(): click on the password input completed or failed
ClickPasswordDone(ok) ==
  /\ loginPc = "clickPassword"
  /\ IF ok
     THEN /\ ops' = Append(ops, Op("type", PasswordSelector))
          /\ loginPc' = "typePassword"
          /\ UNCHANGED <<promise, settles, failures, logs, captchaResult>>
     ELSE /\ Commit(reject(Now, "PASSWORD_FIELD_RELATED"))
          /\ failures' = failures \cup {"password"}
          /\ SolveCaptchas
  /\ UNCHANGED <<loginOptions, captchaOptions, debug, session, page, plugins, runPc,
                 urlRead, escaped>>

\* login(): typing the password completed or failed
TypePasswordDone(ok) ==
  /\ loginPc = "typePassword"
  /\ IF ok
     THEN UNCHANGED <<promise, settles, failures>>
     ELSE /\ Commit(reject(Now, "PASSWORD_FIELD_RELATED"))
          /\ failures' = failures \cup {"password"}
  /\ SolveCaptchas
  /\ UNCHANGED <<loginOptions, captchaOptions, debug, session, page, plugins, runPc,
                 urlRead, escaped>>

\* The await of page.solveRecaptchas() without its .catch: a rejection makes
\* solveCaptchas reject, and the .catch of login() runs instead of its .then
SolveRecaptchasDone_NoCatch(ok) ==
  /\ loginPc = "solveRecaptchas"
  /\ IF ok
     THEN /\ captchaResult' = "defined"
          /\ loginPc' = "captchaThen"
          /\ UNCHANGED <<promise, settles, failures>>
     ELSE /\ captchaResult' = "threw"
          /\ Commit(reject(Now, "CAPTCHA_FIELD_RELATED"))
          /\ failures' = failures \cup {"solveRecaptchas"}
          /\ loginPc' = "inspect"
  /\ UNCHANGED <<loginOptions, captchaOptions, debug, session, page, plugins, logs, ops,
                 runPc, urlRead, escaped>>

\* solveCaptchas(): page.solveRecaptchas() produced a result (ok: `result` is
\* set to it) or rejected (~ok: the error is logged, `result` stays
\* undefined); solveCaptchas then returns `result`.
SolveRecaptchasDone(ok) ==
  /\ loginPc = "solveRecaptchas"
  /\ IF ok
     THEN /\ captchaResult' = "defined"
          /\ UNCHANGED <<logs, failures>>
     ELSE /\ logs' = Append(logs, Log("solveRecaptchas failed", "CaptchaSolver", "error"))
          /\ captchaResult' = "undefined"
          /\ failures' = failures \cup {"solveRecaptchas"}
  /\ loginPc' = "captchaThen"
  /\ UNCHANGED <<loginOptions, captchaOptions, debug, session, page, plugins, ops, runPc,
                 promise, settles, urlRead, escaped>>

\* The .then handler without the test of line 153: an absent result is not
\* rejected
CaptchaThen_NoReject ==
  /\ loginPc = "captchaThen"
  /\ logs' = Append(logs,
                    Log("Successfully solved captcha! (Provider: "
                          \o (IF captchaOptions = <<>> THEN "undefined" ELSE captchaOptions[1].id)
                          \o ")",
                        "CaptchaSolver", "info"))
  /\ ops' = ops \o << Op("waitForNavigation", ""), Op("click", SubmitSelector) >>
  /\ loginPc' = "submit"
  /\ UNCHANGED <<loginOptions, captchaOptions, debug, session, page, plugins, runPc,
                 promise, settles, failures, captchaResult, urlRead, escaped>>

\* login(): the .then handler on solveCaptchas(...)
CaptchaThen ==
  /\ loginPc = "captchaThen"
  /\ Commit(IF captchaResult = "undefined"
            THEN reject(Now, "Failed to solve captcha")
            ELSE Now)
  /\ logs' = Append(logs,
                    Log("Successfully solved captcha! (Provider: "
                          \o (IF captchaOptions = <<>> THEN "undefined" ELSE captchaOptions[1].id)
                          \o ")",
                        "CaptchaSolver", "info"))
  /\ ops' = ops \o << Op("waitForNavigation", ""), Op("click", SubmitSelector) >>
  /\ loginPc' = "submit"
  /\ UNCHANGED <<loginOptions, captchaOptions, debug, session, page, plugins, runPc,
                 failures, captchaResult, urlRead, escaped>>

\* login(): Promise.all([waitForNavigation(), click(submit)]) completed or failed
SubmitDone(navOk, clickOk) ==
  /\ loginPc = "submit"
  /\ IF navOk /\ clickOk
     THEN UNCHANGED <<promise, settles>>
     ELSE Commit(reject(Now, "CAPTCHA_FIELD_RELATED"))
  /\ failures' = failures \cup (IF navOk THEN {} ELSE {"submitNavigation"})
                          \cup (IF clickOk THEN {} ELSE {"submitClick"})
  /\ loginPc' = "inspect"
  /\ UNCHANGED <<loginOptions, captchaOptions, debug, session, page, plugins, logs, ops,
                 runPc, captchaResult, urlRead, escaped>>

\* login(): the inspection of page.url(); u = "threw" when url() throws
InspectUrl(u) ==
  /\ loginPc = "inspect"
  /\ urlRead' = u
  /\ IF u = "threw"
     THEN Commit(reject(Now, "PAGE_OTHER_ERROR"))
     ELSE Commit(reject(IF u = DashboardUrl THEN resolve(Now, "LOGIN_SUCCESS") ELSE Now,
                        "INVALID_CREDENTIALS"))
  /\ loginPc' = "returned"
  /\ UNCHANGED <<loginOptions, captchaOptions, debug, session, page, plugins, logs, ops,
                 runPc, failures, captchaResult, escaped>>

-----------------------------------------------------------------------------
RunStep ==
  \/ Construct
  \/ \E ok \in BOOLEAN : LaunchDone(ok)
  \/ \E ok \in BOOLEAN : NewPageDone(ok)
  \/ \E ok \in BOOLEAN : GotoDone(ok)
  \/ ObserveLogin

LoginStep ==
  \/ \E ok \in BOOLEAN : WaitForNavigationDone(ok)
  \/ \E ok \in BOOLEAN : ClickUsernameDone(ok)
  \/ \E ok \in BOOLEAN : TypeUsernameDone(ok)
  \/ \E ok \in BOOLEAN : ClickPasswordDone(ok)
  \/ \E ok \in BOOLEAN : TypePasswordDone(ok)
  \/ \E ok \in BOOLEAN : SolveRecaptchasDone(ok)
  \/ CaptchaThen
  \/ \E navOk \in BOOLEAN, clickOk \in BOOLEAN : SubmitDone(navOk, clickOk)
  \/ \E u \in UrlInputs \cup {"threw"} : InspectUrl(u)

Next == RunStep \/ LoginStep

Spec == Init /\ [][Next]_vars

\* Every browser operation eventually completes or fails, and the event loop
\* eventually runs every ready continuation.
FairSpec == Spec /\ WF_vars(RunStep) /\ WF_vars(LoginStep)

-----------------------------------------------------------------------------
(* Properties *)

IsEmpty(v) == v \in {Null, Undefined, ""}

Settled == promise.state \in {"fulfilled", "rejected"}

Outcome(kind, v) == [state |-> kind, value |-> v]

BrowserUntouched ==
  /\ ops = <<>>
  /\ session = "null"
  /\ page = "null"
  /\ runPc \in {"new", "aborted"}
  /\ loginPc = "idle"

FirstOutcomeWins ==
  /\ [](settles # <<>> =>
          promise = Outcome(IF settles[1].kind = "resolve" THEN "fulfilled" ELSE "rejected",
                            settles[1].value))
  /\ [][Settled => promise' = promise]_vars

\* C3 witness: a rejected attempt on which resolve was called afterwards.
ResolveAfterReject ==
  /\ promise.state = "rejected"
  /\ \E i, j \in 1..Len(settles) :
       i < j /\ settles[i].kind = "reject" /\ settles[j].kind = "resolve"

\* C4: every login attempt that was started is eventually settled, on every
\* path, when every browser operation eventually completes or fails.
LoginEventuallySettles == (loginPc # "idle") ~> Settled

\* C4 witness: an attempt that ran to its end through a failed password
\* field, an unsolved captcha and a failed navigation wait, and is settled.
SettledAfterFailures ==
  /\ loginPc = "returned"
  /\ Settled
  /\ "password" \in failures
  /\ captchaResult = "undefined"
  /\ "submitNavigation" \in failures

\* C5 (as claimed): the outcome of an attempt is one of the six LoginResults.
OutcomeInLoginResults == Settled => promise.value \in LoginResults

\* C6 (as claimed): when the URL read at the inspection step is the dashboard
\* URL, the outcome is LOGIN_SUCCESS.
DashboardMeansSuccess ==
  urlRead = DashboardUrl => promise = Outcome("fulfilled", "LOGIN_SUCCESS")

\* C7 (as claimed): when the form was submitted and the URL read afterwards is
\* not the dashboard URL, the outcome is INVALID_CREDENTIALS.
OtherUrlMeansInvalidCredentials ==
  (/\ Invoked("click", SubmitSelector)
   /\ "submitClick" \notin failures
   /\ urlRead = LoginPageUrl)
  => promise = Outcome("rejected", "INVALID_CREDENTIALS")

\* C8: when the click or the typing on the username input fails, the outcome
\* is USERNAME_FIELD_RELATED from then on, whatever the later steps do.
UsernameFailureOutcome ==
  "username" \in failures => promise = Outcome("rejected", "USERNAME_FIELD_RELATED")

\* C8 witness: the username and the password field both failed and the
\* attempt still ended on the dashboard URL.
UsernameFailedThenDashboard ==
  /\ {"username", "password"} \subseteq failures
  /\ loginPc = "returned"
  /\ urlRead = DashboardUrl

\* C9 (as claimed): after a failure on the username input no click or type on
\* the password input is performed.
NoPasswordEntryAfterUsernameFailure ==
  "username" \in failures =>
    ~(Invoked("click", PasswordSelector) \/ Invoked("type", PasswordSelector))

\* C10 (as claimed): when both fields were filled and captcha resolution
\* fails (solveCaptchas yields an absent result, or the handler of the captcha
\* step throws), the outcome is CAPTCHA_FIELD_RELATED.
CaptchaFailureOutcome ==
  (/\ loginPc \in {"inspect", "returned"}
   /\ failures \cap {"username", "password"} = {}
   /\ \/ captchaResult = "undefined"
      \/ failures \cap {"submitNavigation", "submitClick"} # {})
  => promise = Outcome("rejected", "CAPTCHA_FIELD_RELATED")

\* C11: solveCaptchas never throws (the handler of login() always runs on its
\* result), and its result is defined exactly when the provider is capmonster
\* and the solve succeeded; for another provider, for absent options and for a
\* failed solve it is undefined.
SolveCaptchasResult ==
  captchaResult \notin {"none", "pending"} =>
    /\ captchaResult \in {"defined", "undefined"}
    /\ loginPc \in {"captchaThen", "submit", "inspect", "returned"}
    /\ loginPc # "captchaThen" => Invoked("click", SubmitSelector)
    /\ captchaResult = "defined" <=>
         (/\ captchaOptions # <<>>
          /\ captchaOptions[1].id = "capmonster"
          /\ Invoked("solveRecaptchas", "")
          /\ "solveRecaptchas" \notin failures)
    /\ Invoked("solveRecaptchas", "") =>
         (captchaOptions # <<>> /\ captchaOptions[1].id = "capmonster")

\* C11 witness: the capmonster solve failed, the error was logged and
\* solveCaptchas returned an absent result to the handler of login().
FailedSolveReturnedUndefined ==
  /\ "solveRecaptchas" \in failures
  /\ captchaResult = "undefined"
  /\ loginPc = "submit"
  /\ \E i \in 1..Len(logs) : logs[i] = Log("solveRecaptchas failed", "CaptchaSolver", "error")

\* C12 (as claimed): a failed navigation wait, the initial one or the one
\* after the submit, makes the outcome PAGE_OTHER_ERROR when no earlier step
\* of the attempt failed.
NavigationErrorIsPageOtherError ==
  (\/ "navigation" \in failures
   \/ (failures = {"submitNavigation"} /\ captchaResult = "defined"))
  => promise = Outcome("rejected", "PAGE_OTHER_ERROR")

\* C13: when the username field was filled and the click or the typing on the
\* password input fails, the outcome is PASSWORD_FIELD_RELATED.
PasswordFailureOutcome ==
  ("password" \in failures /\ "username" \notin failures)
  => promise = Outcome("rejected", "PASSWORD_FIELD_RELATED")

\* C13 witness: only the password field failed, the captcha was solved and
\* the attempt ended on the dashboard URL.
PasswordFailedThenDashboard ==
  /\ failures = {"password"}
  /\ captchaResult = "defined"
  /\ loginPc = "returned"
  /\ urlRead = DashboardUrl

\* C14 (as claimed): the submit button is clicked, and the 'Successfully
\* solved captcha' line logged, only if solveCaptchas returned a defined
\* result.
SubmitOnlyAfterSolved ==
  (\/ Invoked("click", SubmitSelector)
   \/ \E i \in 1..Len(logs), id \in ProviderInputs \cup {"undefined"} :
        logs[i] = Log("Successfully solved captcha! (Provider: " \o id \o ")",
                      "CaptchaSolver", "info"))
  => captchaResult = "defined"

PageErrorLogged == \E i \in 1..Len(logs) : logs[i].from = "Page" /\ logs[i].level = "ERROR"

\* C15: the phases run in the order launch, newPage, goto, login, each at
\* most once; login is invoked only after goto succeeded, and when goto fails
\* the Page error is logged and login is never invoked.
PhasesInOrder ==
  /\ Len(ops) >= 1 => ops[1].op = "launch"
  /\ Len(ops) >= 2 => ops[2] = Op("newPage", "")
  /\ Len(ops) >= 3 => ops[3] = Op("goto", DashboardUrl)
  /\ Len(ops) >= 4 => ops[4] = Op("waitForNavigation", "networkidle0")
  /\ \A i \in 1..Len(ops) :
       /\ ops[i].op = "launch" => i = 1
       /\ ops[i].op = "newPage" => i = 2
       /\ ops[i].op = "goto" => i = 3
       /\ ops[i] = Op("waitForNavigation", "networkidle0") => i = 4
  /\ (loginPc # "idle" \/ promise.state # "none") =>
       /\ Len(ops) >= 4
       /\ session = "browser"
       /\ page = "page"
       /\ runPc \in {"login", "done"}
       /\ ~PageErrorLogged
  /\ PageErrorLogged =>
       /\ runPc = "done"
       /\ Len(ops) = 3
       /\ loginPc = "idle"
       /\ promise.state = "none"
  /\ (runPc = "done" /\ promise.state = "none") => PageErrorLogged

\* C15 witness: goto failed, the Page error is logged and run() has ended
\* without a login attempt.
GotoFailedNoLogin ==
  /\ PageErrorLogged
  /\ runPc = "done"
  /\ Invoked("goto", DashboardUrl)

RunErrorLogged ==
  \E i \in 1..Len(logs) :
    logs[i].level = "ERROR" /\ logs[i].from \in {"BrowsingSession", "Page", "Login"}

\* C16 (as claimed): every failure of a started session (launch, page
\* opening, navigation, login) emits an error log line, and no exception or
\* rejected promise escapes from the session.
FailuresOnlyLogged ==
  /\ ~escaped
  /\ (\/ runPc = "rejected"
      \/ (runPc = "done" /\ promise.state \in {"none", "rejected"}))
     => RunErrorLogged

\* C17: an attempt ends in LOGIN_SUCCESS only if solveCaptchas returned a
\* defined result; with an absent result the attempt is rejected before the
\* URL inspection and stays so, whatever URL is read.
SuccessNeedsSolvedCaptcha ==
  /\ (Settled /\ promise.value = "LOGIN_SUCCESS") => captchaResult = "defined"
  /\ (captchaResult = "undefined" /\ loginPc \in {"submit", "inspect", "returned"})
       => (promise.state = "rejected" /\ promise.value # "LOGIN_SUCCESS")

\* C17 witness: no captcha options, no step failed, the final URL is the
\* dashboard URL and the attempt has ended.
NoCaptchaOptionsOnDashboard ==
  /\ captchaOptions = <<>>
  /\ failures = {}
  /\ urlRead = DashboardUrl
  /\ loginPc = "returned"

\* The outcome of the earliest step, in program order, that has settled the
\* attempt so far
EarliestOutcome ==
  IF "navigation" \in failures THEN Outcome("rejected", "PAGE_OTHER_ERROR")
  ELSE IF "username" \in failures THEN Outcome("rejected", "USERNAME_FIELD_RELATED")
  ELSE IF "password" \in failures THEN Outcome("rejected", "PASSWORD_FIELD_RELATED")
  ELSE IF captchaResult = "undefined" THEN Outcome("rejected", "Failed to solve captcha")
  ELSE IF failures \cap {"submitNavigation", "submitClick"} # {}
       THEN Outcome("rejected", "CAPTCHA_FIELD_RELATED")
  ELSE IF urlRead = "threw" THEN Outcome("rejected", "PAGE_OTHER_ERROR")
  ELSE IF urlRead = DashboardUrl THEN Outcome("fulfilled", "LOGIN_SUCCESS")
  ELSE Outcome("rejected", "INVALID_CREDENTIALS")

\* C18: when several steps of an attempt fail, the outcome is that of the
\* earliest failing step in program order (username field, password field,
\* captcha step, URL inspection); a later success at the URL inspection never
\* overrides an earlier failure.
EarliestFailureWins == Settled => promise = EarliestOutcome

\* C18 witness: both fields, the captcha solve and the submit failed and the
\* URL read at the end is the dashboard URL.
EveryStepFailedThenDashboard ==
  /\ {"username", "password", "solveRecaptchas", "submitClick"} \subseteq failures
  /\ urlRead = DashboardUrl
  /\ loginPc = "returned"
  /\ Len(settles) >= 5

====
